---- MODULE Spec2Model ----
(***************************************************************************)
(* GeoGPT Pro (src/app.py): the chat input handler of the Streamlit script *)
(* and the geocode cache st.session_state["geolocation_cache"] behind      *)
(* get_location_info.                                                      *)
(*                                                                         *)
(* Abstractions.  A location string is a number in Keys.  The text of a    *)
(* user input is represented by what the handler's regular expressions,    *)
(* substring tests and the spaCy pipeline find in it (the record fields of *)
(* Inputs).  External services (Nominatim, Open-Meteo, RestCountries,      *)
(* Overpass) answer nondeterministically at every call.  A run of the      *)
(* script for one input is one action; the set-valued operators below      *)
(* enumerate every way the external answers can fall during that run.      *)
(***************************************************************************)
EXTENDS Integers, Sequences, FiniteSets, TLC

\* ------------------------------------------------------------------ bounds
NumKeys   == 2      \* distinct location strings
NumCoords == 2      \* distinct coordinates the provider may answer with
MaxLocs   == 2      \* candidates found in one input (entities + regex parts)
MaxInputs == 2      \* inputs handled in one session
MaxExtras == 1      \* of weather, country, places: how many one input asks for
NumThreads == 2     \* threads inside get_location_info at the same time
MaxClock  == 1201   \* seconds of wall clock followed

\* Section 4.2 of the specification: "TTL default: 600 seconds; capacity
\* default: 100 entries".  The code sets neither.
TTL == 600
Capacity == 100

Keys == 1..NumKeys

\* Python's None, encoded as a number that no latitude, longitude or
\* address of the model takes.
None == 0

\* The coordinates (latitude, longitude) the provider may answer with for a
\* location name: places of different names lie at different coordinates.
Coordinates(location_name) ==
  {<<10 * location_name + i, 0 - (10 * location_name + i)>> : i \in 1..NumCoords}

\* ------------------------------------------------- the geocoding provider
\* geolocator.geocode(location_name, exactly_one=True): a Location, None,
\* or an exception (timeout, network error, malformed response).
NoMatch == [kind |-> "None"]
GeocoderError == [kind |-> "raise"]
Locations(location_name) ==
  {[kind |-> "Location", latitude |-> c[1], longitude |-> c[2], address |-> c[1]] :
      c \in Coordinates(location_name)}
ProviderResponses(location_name) ==
  Locations(location_name) \cup {NoMatch, GeocoderError}

\* ---------------------------------------------------------- the cache dict
\* CacheStore with the bug of rebuilding the dict around the new entry.
CacheStoreAlone(c, location_name, lat, lon) ==
  [k \in {location_name} |-> <<lat, lon>>]

\* st.session_state["geolocation_cache"][location_name] = (lat, lon)
CacheStore(c, location_name, lat, lon) ==
  [k \in (DOMAIN c) \cup {location_name} |->
      IF k = location_name THEN <<lat, lon>> ELSE c[k]]

EmptyCache == [k \in {} |-> <<None, None>>]

\* ------------------------------------------------------ get_location_info
\* What a call of get_location_info ends with.
ReturnTuple(lat, lon, address) ==
  [kind |-> "tuple", lat |-> lat, lon |-> lon, address |-> address]
ReturnNone == [kind |-> "None"]            \* fell off the end of the function
Raised == [kind |-> "raise"]               \* an exception left the function

\* CacheHit with the bug of asking the provider again on every hit and
\* returning what it answers.
CacheHitRefetch(c, location_name, detailed) ==
  {[cache |-> c,
    provider |-> <<location>>,
    result |-> IF location.kind = "Location"
               THEN ReturnTuple(location.latitude, location.longitude,
                                IF detailed THEN location.address ELSE None)
               ELSE ReturnTuple(c[location_name][1], c[location_name][2], None)] :
     location \in ProviderResponses(location_name)}

\* The cache-hit branch, lines 64-70.
CacheHit(c, location_name, detailed) ==
  IF detailed
  THEN {[cache |-> c,
         provider |-> <<location>>,
         result |-> IF location.kind = "raise" THEN Raised
                    ELSE ReturnTuple(c[location_name][1], c[location_name][2],
                                     IF location.kind = "Location"
                                     THEN location.address ELSE None)] :
          location \in ProviderResponses(location_name)}
  ELSE {[cache |-> c,
         provider |-> <<>>,
         result |-> ReturnTuple(c[location_name][1], c[location_name][2], None)]}

\* CacheMiss with the bug of caching the negative result too.
CacheMissNegative(c, location_name, detailed) ==
  {[cache |-> IF location.kind = "Location"
              THEN CacheStore(c, location_name, location.latitude, location.longitude)
              ELSE CacheStore(c, location_name, None, None),
    provider |-> <<location>>,
    result |-> CASE location.kind = "Location" ->
                      ReturnTuple(location.latitude, location.longitude,
                                  IF detailed THEN location.address ELSE None)
                 [] location.kind = "None" -> ReturnNone
                 [] location.kind = "raise" -> ReturnTuple(None, None, None)] :
     location \in ProviderResponses(location_name)}

\* The cache-miss branch, lines 72-83.
CacheMiss(c, location_name, detailed) ==
  {[cache |-> IF location.kind = "Location"
              THEN CacheStore(c, location_name, location.latitude, location.longitude)
              ELSE c,
    provider |-> <<location>>,
    result |-> CASE location.kind = "Location" ->
                      ReturnTuple(location.latitude, location.longitude,
                                  IF detailed THEN location.address ELSE None)
                 [] location.kind = "None" -> ReturnNone
                 [] location.kind = "raise" -> ReturnTuple(None, None, None)] :
     location \in ProviderResponses(location_name)}

\* get_location_info(location_name, detailed): every outcome of one call
\* made with cache c.  provider is the sequence of answers the provider
\* gave during the call (empty: the provider was not called).
get_location_info(c, location_name, detailed) ==
  IF location_name \in DOMAIN c
  THEN CacheHit(c, location_name, detailed)
  ELSE CacheMiss(c, location_name, detailed)

\* One entry of the resolution log kept for the properties.
Resolution(c, location_name, detailed, o) ==
  [name |-> location_name, detailed |-> detailed,
   hit |-> location_name \in DOMAIN c,
   before |-> c, after |-> o.cache,
   provider |-> o.provider, result |-> o.result]

\* A call gave a coordinate: it returned a tuple whose lat is not None.
GaveCoordinate(result) == result.kind = "tuple" /\ result.lat # None

Brief(r) ==
  [name |-> r.name, hit |-> r.hit, coordinate |-> GaveCoordinate(r.result)]

\* ------------------------------------------------- the other collaborators
\* An HTTP request to Open-Meteo, RestCountries or Overpass.
HttpOutcomes == {"ok", "failed"}
PyNone == [kind |-> "None"]

\* get_weather(lat, lon), lines 99-127: a dict on status 200, else None.
get_weather(http) == IF http = "ok" THEN [kind |-> "dict"] ELSE PyNone

\* get_country_info(country_name), lines 204-218.
get_country_info(http) == IF http = "ok" THEN [kind |-> "dict"] ELSE PyNone

\* get_nearby_places(...), lines 86-96: the elements found, [] otherwise.
get_nearby_places(http) == IF http = "ok" THEN <<"place">> ELSE <<>>

\* ------------------------------------------------------------- the input
\* place_types, line 276 (the entries the inputs of the model mention).
place_types == <<"hospital", "restaurant">>

\* Lines 279-282: the first entry of place_types found in the input.
RECURSIVE FirstPlaceType(_, _)
FirstPlaceType(words, i) ==
  IF i > Len(place_types) THEN "None"
  ELSE IF place_types[i] \in words THEN place_types[i]
  ELSE FirstPlaceType(words, i + 1)

SeqsUpTo(S, n) == UNION {[1..m -> S] : m \in 0..n}

InSeq(x, s) == \E i \in 1..Len(s) : s[i] = x

\* Lines 54-58: append every regex part that is not yet in locations.
RECURSIVE AppendNew(_, _, _)
AppendNew(locations, parts, i) ==
  IF i > Len(parts) THEN locations
  ELSE AppendNew(IF InSeq(parts[i], locations) THEN locations
                 ELSE Append(locations, parts[i]), parts, i + 1)

\* extract_location_from_text(text), lines 48-60.  ents: the texts of the
\* GPE/LOC/FAC entities spaCy finds, in reading order; neighborhoods: the
\* non-empty groups of the neighborhood/district regex, in order.
extract_location_from_text(ents, neighborhoods) ==
  AppendNew(ents, neighborhoods, 1)

\* What the handler reads off one user input.
\*   distance          line 265, re.search(r'(distance|far|how far)')
\*   match             line 132, <<>> or <<origin, destination>>
\*   ents, neighborhoods   line 50 and line 53
\*   show_coordinates  line 272
\*   weather           line 313;  country  line 332
\*   place_words       the entries of place_types the input contains
\* An input is given with the features its branch never reads cleared,
\* except the entities: the distance branch reads only match, and the
\* coordinates branch reads none of weather, country, place_words.
Extras(q) ==
  (IF q.weather THEN 1 ELSE 0) + (IF q.country THEN 1 ELSE 0)
    + (IF q.place_words # {} THEN 1 ELSE 0)

LocationInputs ==
  {q \in [distance : {FALSE}, match : {<<>>},
          ents : SeqsUpTo(Keys, MaxLocs), neighborhoods : SeqsUpTo(Keys, MaxLocs),
          show_coordinates : BOOLEAN, weather : BOOLEAN, country : BOOLEAN,
          place_words : {{}, {"restaurant"}}] :
     /\ Len(q.ents) + Len(q.neighborhoods) <= MaxLocs
     /\ Extras(q) <= MaxExtras
     /\ q.show_coordinates => Extras(q) = 0}

DistanceInputs ==
  [distance : {TRUE}, match : {<<>>} \cup (Keys \X Keys),
   ents : SeqsUpTo(Keys, 1), neighborhoods : {<<>>},
   show_coordinates : {FALSE}, weather : {FALSE}, country : {FALSE},
   place_words : {{}}]

Inputs == LocationInputs \cup DistanceInputs

\* ------------------------------------------------------ one run of the script
\* A part of the response string: which text, about which location(s).
Seg(text, about) == [text |-> text, about |-> about]

\* A folium map stored in st.session_state["map_data"].
Map(kind, about) == [kind |-> kind, about |-> about]
NoMap == Map("None", <<>>)

\* The state a run works on: the session state it writes, the response it
\* builds, the resolutions it has made, and whether an exception ended it.
Start(c, m) ==
  [cache |-> c, map_data |-> m, show_map |-> FALSE,
   response |-> <<>>, log |-> <<>>, raised |-> FALSE]

\* A call of get_location_info has ended with outcome o.
AfterCall(st, location_name, detailed, o) ==
  [st EXCEPT !.cache = o.cache,
             !.log = Append(@, Resolution(st.cache, location_name, detailed, o))]

\* "lat, lon = get_location_info(...)" raises unless a tuple came back: the
\* call itself raised, or it returned None, which cannot be unpacked.
Unpacks(o) == o.result.kind = "tuple"

Say(st, segs) == [st EXCEPT !.response = @ \o segs]

Show(st, m) == [st EXCEPT !.map_data = m, !.show_map = TRUE]

\* get_distance(text), lines 130-201.
DistanceFound(st, origin, destination, r1, r2) ==
  IF None \notin {r1.lat, r1.lon, r2.lat, r2.lon}
  THEN Show(Say(st, <<Seg("Distance", <<origin, destination>>)>>),
            Map("route", <<origin, destination>>))
  ELSE Say(st, <<Seg("NotFoundOneOrBoth", <<origin, destination>>)>>)

get_distance(st, q) ==
  IF q.match = <<>>
  THEN {Say(st, <<Seg("DistanceNotUnderstood", <<>>)>>)}
  ELSE LET origin == q.match[1]
           destination == q.match[2]
       IN UNION {
            LET st1 == AfterCall(st, origin, FALSE, o1)
            IN IF ~Unpacks(o1) THEN {[st1 EXCEPT !.raised = TRUE]}
               ELSE {LET st2 == AfterCall(st1, destination, FALSE, o2)
                     IN IF ~Unpacks(o2) THEN [st2 EXCEPT !.raised = TRUE]
                        ELSE DistanceFound(st2, origin, destination,
                                           o1.result, o2.result) :
                       o2 \in get_location_info(st1.cache, destination, FALSE)} :
            o1 \in get_location_info(st.cache, origin, FALSE)}

\* Lines 290-304: one location of the loop when coordinates are asked for.
CoordinatesBody(st, location_name) ==
  {LET st1 == AfterCall(st, location_name, TRUE, o)
   IN IF ~Unpacks(o) THEN [st1 EXCEPT !.raised = TRUE]
      ELSE IF o.result.lat = None
      THEN Say(st1, <<Seg("Sorry", <<location_name>>)>>)
      ELSE Show(Say(st1, <<Seg("LocationFound", <<location_name>>),
                           Seg("FullAddress", <<location_name>>),
                           Seg("Coordinates", <<location_name>>)>>),
                Map("coordinates", <<location_name>>)) :
     o \in get_location_info(st.cache, location_name, TRUE)}

\* Lines 312-329, 331-342 and 344-383: the three optional parts.
WeatherPart(st, q, location_name) ==
  IF ~q.weather THEN {st}
  ELSE {LET weather_data == get_weather(http)
            st1 == IF weather_data.kind # "None"
                   THEN Say(st, <<Seg("Weather", <<location_name>>)>>) ELSE st
        IN Show(st1, Map("weather", <<location_name>>)) : http \in HttpOutcomes}

CountryPart(st, q, location_name) ==
  IF ~q.country THEN {st}
  ELSE {LET country_data == get_country_info(http)
        IN IF country_data.kind # "None"
           THEN Say(st, <<Seg("CountryInformation", <<location_name>>)>>)
           ELSE st : http \in HttpOutcomes}

PlacesPart(st, q, location_name) ==
  LET place_type == FirstPlaceType(q.place_words, 1)
  IN IF place_type = "None" THEN {st}
     ELSE {LET places == get_nearby_places(http)
           IN IF places # <<>>
              THEN Show(Say(st, <<Seg("Places", <<location_name>>)>>),
                        Map("places", <<location_name>>))
              ELSE Say(st, <<Seg("NoPlaces", <<location_name>>)>>) :
             http \in HttpOutcomes}

\* Lines 305-383: one location of the loop otherwise.
PlainBody(st, q, location_name) ==
  UNION {
    LET st1 == AfterCall(st, location_name, FALSE, o)
    IN IF ~Unpacks(o) THEN {[st1 EXCEPT !.raised = TRUE]}
       ELSE IF o.result.lat = None
       THEN {Say(st1, <<Seg("Sorry", <<location_name>>)>>)}
       ELSE UNION {UNION {PlacesPart(st4, q, location_name) :
                            st4 \in CountryPart(st3, q, location_name)} :
                     st3 \in WeatherPart(Say(st1, <<Seg("LocationFound",
                                                       <<location_name>>)>>),
                                         q, location_name)} :
    o \in get_location_info(st.cache, location_name, FALSE)}

LoopBody(st, q, location_name) ==
  IF q.show_coordinates THEN CoordinatesBody(st, location_name)
  ELSE PlainBody(st, q, location_name)

\* LocationLoop with the bug of stopping at the first location that was
\* not found.
RECURSIVE LocationLoopShortCircuit(_, _, _, _)
LocationLoopShortCircuit(st, q, locations, i) ==
  IF \/ st.raised \/ i > Len(locations)
     \/ (st.response # <<>> /\ st.response[Len(st.response)].text = "Sorry")
  THEN {st}
  ELSE UNION {LocationLoopShortCircuit(st1, q, locations, i + 1) :
                st1 \in LoopBody(st, q, locations[i])}

\* LocationLoop with the bug of handling the first location only.
LocationLoopFirstOnly(st, q, locations, i) ==
  IF i > Len(locations) THEN {st} ELSE LoopBody(st, q, locations[i])

\* Lines 288-383: "for location_name in locations", from the i-th on.  An
\* exception ends the loop and the run.
RECURSIVE LocationLoop(_, _, _, _)
LocationLoop(st, q, locations, i) ==
  IF st.raised \/ i > Len(locations) THEN {st}
  ELSE UNION {LocationLoop(st1, q, locations, i + 1) :
                st1 \in LoopBody(st, q, locations[i])}

\* Runs with the bug of entering the loop without the test of line 284.
RunsUnguarded(c, m, q) ==
  IF q.distance THEN get_distance(Start(c, m), q)
  ELSE LocationLoop(Start(c, m), q,
                    extract_location_from_text(q.ents, q.neighborhoods), 1)

\* Lines 264-383: the response of one run, every way it can go.
Runs(c, m, q) ==
  IF q.distance THEN get_distance(Start(c, m), q)
  ELSE LET locations == extract_location_from_text(q.ents, q.neighborhoods)
       IN IF locations = <<>>
          THEN {Say(Start(c, m), <<Seg("NoLocationInQuery", <<>>)>>)}
          ELSE LocationLoop(Start(c, m), q, locations, 1)

\* ------------------------------------------------------------------ state
VARIABLES
  geolocation_cache,   \* st.session_state["geolocation_cache"]
  chat_history,        \* st.session_state["chat_history"], the roles
  show_map,            \* st.session_state["show_map"]
  map_data,            \* st.session_state["map_data"]
  user_input,          \* the input of the latest run
  run,                 \* the latest run: its response, log and ending
  previous,            \* the last resolution made before the latest run:
                       \* <<>>, or its name, hit and whether it gave a coordinate
  resolved,            \* history: per name, the coordinate its first
                       \* successful resolution returned
  now,                 \* the wall clock, in seconds
  inserted_at,         \* history: per cached name, the time of its insertion
  calls                \* per thread, the call of get_location_info it is in

vars == <<geolocation_cache, chat_history, show_map, map_data,
          user_input, run, previous, resolved, now, inserted_at,
          calls>>

scriptVars == <<chat_history, show_map, map_data, user_input, run, previous,
                resolved>>

NoInput ==
  [distance |-> FALSE, match |-> <<>>, ents |-> <<>>, neighborhoods |-> <<>>,
   show_coordinates |-> FALSE, weather |-> FALSE, country |-> FALSE,
   place_words |-> {}]

Threads == 1..NumThreads
Idle == [line |-> 0]

\* Lines 35-45, and no input handled yet.
Init ==
  /\ geolocation_cache = EmptyCache
  /\ chat_history = <<>>
  /\ show_map = FALSE
  /\ map_data = NoMap
  /\ user_input = NoInput
  /\ run = Start(EmptyCache, NoMap)
  /\ previous = <<>>
  /\ resolved = EmptyCache
  /\ now = 0
  /\ inserted_at = [k \in {} |-> 0]
  /\ calls = [t \in Threads |-> Idle]

\* The names first resolved during a run, added to f.
RECURSIVE FirstResolved(_, _, _)
FirstResolved(f, log, i) ==
  IF i > Len(log) THEN f
  ELSE LET r == log[i]
       IN FirstResolved(IF GaveCoordinate(r.result) /\ r.name \notin DOMAIN f
                        THEN CacheStore(f, r.name, r.result.lat, r.result.lon)
                        ELSE f, log, i + 1)

\* Lines 254-392: the script handles one user input.  The user message is
\* appended first; the assistant message only when no exception ended the
\* run (line 387 is then not reached).
Handle(q) ==
  \E fin \in Runs(geolocation_cache, map_data, q) :
    /\ geolocation_cache' = fin.cache
    /\ chat_history' = chat_history \o <<[role |-> "user"]>>
                         \o (IF fin.raised THEN <<>> ELSE <<[role |-> "assistant"]>>)
    /\ show_map' = fin.show_map
    /\ map_data' = fin.map_data
    /\ user_input' = q
    /\ run' = fin
    /\ previous' = IF run.log # <<>> THEN <<Brief(run.log[Len(run.log)])>>
                    ELSE previous
    /\ resolved' = FirstResolved(resolved, fin.log, 1)
    /\ inserted_at' = [k \in DOMAIN fin.cache |->
                         IF k \in DOMAIN inserted_at THEN inserted_at[k] ELSE now]
    /\ UNCHANGED <<now, calls>>

Handled == Cardinality({i \in 1..Len(chat_history) : chat_history[i].role = "user"})

\* The same, for MaxInputs inputs at most in a session.
HandleInput(q) == Handled < MaxInputs /\ Handle(q)

Next == \E q \in Inputs : HandleInput(q)

Spec == Init /\ [][Next]_vars

\* ------------------------------------------------------------ time passing
\* The session stays open while time passes.
TimeSteps == {TTL, TTL + 1}

Tick ==
  \E dt \in TimeSteps :
    /\ now + dt <= MaxClock
    /\ now' = now + dt
    /\ UNCHANGED <<geolocation_cache, scriptVars, inserted_at, calls>>

\* Inputs naming one location at most, with nothing else asked.
PlainInputs ==
  {q \in LocationInputs :
     Len(q.ents) <= 1 /\ q.neighborhoods = <<>> /\ Extras(q) = 0}

NextTTL == Tick \/ \E q \in PlainInputs : HandleInput(q)

SpecTTL == Init /\ [][NextTTL]_vars

\* --------------------------------------------------- many distinct locations
\* The user asks about one new location after the other; the provider
\* knows each of them.
Ask(location_name) == [NoInput EXCEPT !.ents = <<location_name>>]

NextFill ==
  LET location_name == Cardinality(DOMAIN geolocation_cache) + 1
  IN /\ location_name <= Capacity + 1
     /\ Handle(Ask(location_name))
     /\ location_name \in DOMAIN geolocation_cache'
     /\ geolocation_cache'[location_name] =
          <<10 * location_name + 1, 0 - (10 * location_name + 1)>>

SpecFill == Init /\ [][NextFill]_vars

\* ------------------------------------- get_location_info, line by line
\* Threads that run get_location_info on the same cache dict, one statement
\* at a time.  calls[t].line is the line thread t is about to execute; a
\* dict lookup or item assignment is one step.
At(t, line) == calls[t].line = line

\* Line 63: the call.
Enter(t, location_name, detailed) ==
  /\ calls[t] = Idle
  /\ calls' = [calls EXCEPT ![t] = [line |-> 64, location_name |-> location_name,
                                     detailed |-> detailed]]
  /\ UNCHANGED <<geolocation_cache, scriptVars, now, inserted_at>>

\* Line 64: if location_name in st.session_state["geolocation_cache"].
Line64(t) ==
  /\ At(t, 64)
  /\ calls' = [calls EXCEPT ![t].line =
                 IF calls[t].location_name \in DOMAIN geolocation_cache
                 THEN 65 ELSE 74]
  /\ UNCHANGED <<geolocation_cache, scriptVars, now, inserted_at>>

\* Lines 65, 66 and 70: read the entry; return it unless detailed.
Line65(t) ==
  /\ At(t, 65)
  /\ calls' = [calls EXCEPT ![t] =
                 IF calls[t].detailed
                 THEN [line |-> 68, location_name |-> calls[t].location_name,
                       detailed |-> TRUE,
                       lat |-> geolocation_cache[calls[t].location_name][1],
                       lon |-> geolocation_cache[calls[t].location_name][2]]
                 ELSE Idle]
  /\ UNCHANGED <<geolocation_cache, scriptVars, now, inserted_at>>

\* Lines 68-69: the provider answers; return or raise.
Line68(t) ==
  /\ At(t, 68)
  /\ \E location \in ProviderResponses(calls[t].location_name) :
       calls' = [calls EXCEPT ![t] = Idle]
  /\ UNCHANGED <<geolocation_cache, scriptVars, now, inserted_at>>

\* Lines 74-75 and 80-83: the provider answers; go on to the store on a
\* match, return otherwise.
Line74(t) ==
  /\ At(t, 74)
  /\ \E location \in ProviderResponses(calls[t].location_name) :
       /\ calls' = [calls EXCEPT ![t] =
                      IF location.kind = "Location"
                      THEN [line |-> 76, location_name |-> calls[t].location_name,
                            detailed |-> calls[t].detailed,
                            lat |-> location.latitude, lon |-> location.longitude]
                      ELSE Idle]
  /\ UNCHANGED <<geolocation_cache, scriptVars, now, inserted_at>>

\* Lines 76-79: store the coordinate and return it.
Line76(t) ==
  /\ At(t, 76)
  /\ geolocation_cache' = CacheStore(geolocation_cache, calls[t].location_name,
                                     calls[t].lat, calls[t].lon)
  /\ inserted_at' = [k \in DOMAIN geolocation_cache' |->
                       IF k \in DOMAIN inserted_at THEN inserted_at[k] ELSE now]
  /\ calls' = [calls EXCEPT ![t] = Idle]
  /\ UNCHANGED <<scriptVars, now>>

NextThreads ==
  \E t \in Threads :
    \/ \E location_name \in Keys, detailed \in BOOLEAN :
         Enter(t, location_name, detailed)
    \/ Line64(t)
    \/ Line65(t)
    \/ Line68(t)
    \/ Line74(t)
    \/ Line76(t)

SpecThreads == Init /\ [][NextThreads]_vars

\* ---------------------------------------------------------------- claims
LogIndex == 1..Len(run.log)

Coordinate(result) == <<result.lat, result.lon>>

\* C1 as stated: a resolution of a name that is in the cache, whatever the
\* detailed flag, returns the coordinate first resolved for that name and
\* makes no call to the geocoding provider.
C1_HitNeverCallsProvider ==
  \A i \in LogIndex :
    LET r == run.log[i]
    IN r.hit =>
         /\ r.provider = <<>>
         /\ r.result.kind = "tuple"
         /\ r.name \in DOMAIN resolved
         /\ Coordinate(r.result) = resolved[r.name]

\* C1 as amended: a resolution with detailed=False of a name that is in the
\* cache returns the coordinate the first successful resolution of that
\* name returned, and makes no call to the geocoding provider.
C1_PlainHitNeverCallsProvider ==
  \A i \in LogIndex :
    LET r == run.log[i]
    IN (r.hit /\ ~r.detailed) =>
         /\ r.provider = <<>>
         /\ r.result.kind = "tuple"
         /\ r.name \in DOMAIN resolved
         /\ Coordinate(r.result) = resolved[r.name]

\* C1 witness: the second of two runs resolves, with detailed=False, a name
\* that an earlier run put in the cache.
C1_Witness ==
  /\ Handled = 2
  /\ \E i \in LogIndex :
       /\ run.log[i].hit /\ ~run.log[i].detailed
       /\ previous # <<>> /\ previous[1].name = run.log[i].name
       /\ Coordinate(run.log[i].result) = geolocation_cache[run.log[i].name]

\* The resolution that comes right after the i-th of the latest run calls
\* the provider, when it is for the same name.
NextCallsProvider(i) ==
  (i < Len(run.log) /\ run.log[i + 1].name = run.log[i].name)
     => run.log[i + 1].provider # <<>>

\* The same for the first resolution of the latest run, after the last
\* resolution made before it.
FirstCallsProvider ==
  (run.log # <<>> /\ run.log[1].name = previous[1].name)
     => run.log[1].provider # <<>>

SaysNotFound(location_name) ==
  \E j \in 1..Len(run.response) :
    /\ run.response[j].text \in {"Sorry", "NotFoundOneOrBoth"}
    /\ InSeq(location_name, run.response[j].about)

\* C3: when the provider returns no match for a location, without raising,
\* the run ends with the location-not-found message for that location, in
\* the location loop and in get_distance, and not with an exception.
C3_NoMatchSaysNotFound ==
  \A i \in LogIndex :
    run.log[i].provider = <<NoMatch>> =>
       ~run.raised /\ SaysNotFound(run.log[i].name)

\* C4: a failure of the provider call never leads the handler to report
\* the location-not-found message for that location.
C4_FailureNotReportedAsNotFound ==
  \A i \in LogIndex :
    run.log[i].provider = <<GeocoderError>> => ~SaysNotFound(run.log[i].name)

\* The locations of the latest input, as extract_location_from_text
\* gives them (also for an input that took the distance branch).
Found == extract_location_from_text(user_input.ents, user_input.neighborhoods)

ErrorTexts ==
  {"Sorry", "NotFoundOneOrBoth", "NoLocationInQuery", "DistanceNotUnderstood"}

HeadTexts == {"Sorry", "LocationFound"}
IsHead(seg) == seg.text \in HeadTexts

C8_FirstCandidateOnly ==
  (~user_input.distance /\ Len(Found) > 1) =>
     \A i \in LogIndex : i = 1 /\ run.log[i].name = Found[1]

\* C8 as amended: when several candidates are found, the handler resolves
\* them one after the other in reading order, the first one first and every
\* later one too, each with its own cache lookup, provider call on a miss
\* and cache insert on a match; only an exception stops it early.
C8_EveryCandidateInOrder ==
  ~user_input.distance =>
     /\ Len(run.log) <= Len(Found)
     /\ \A i \in LogIndex : run.log[i].name = Found[i]
     /\ Found # <<>> => run.log # <<>>
     /\ ~run.raised => Len(run.log) = Len(Found)
     /\ (run.raised /\ run.log # <<>>) => ~Unpacks(run.log[Len(run.log)])
     /\ \A i \in LogIndex :
          /\ (~run.log[i].hit \/ run.log[i].detailed) <=> run.log[i].provider # <<>>
          /\ (~run.log[i].hit /\ run.log[i].provider[1].kind = "Location")
               <=> run.log[i].after # run.log[i].before

\* C8 witness: two different candidates, and the second one got its own
\* provider call and cache insert.
C8_Witness ==
  /\ ~user_input.distance /\ Len(Found) = 2 /\ Found[1] # Found[2]
  /\ Len(run.log) = 2
  /\ run.log[2].provider # <<>>
  /\ run.log[2].after # run.log[2].before
  /\ Found[2] \in DOMAIN geolocation_cache

NoLocationFound == <<Seg("NoLocationInQuery", <<>>)>>

\* The step handles an input without a call of get_location_info and
\* without a change of the cache.
NoResolution ==
  /\ ~run'.raised
  /\ run'.log = <<>>
  /\ geolocation_cache' = geolocation_cache

C5_NoHitAfterTTL ==
  [][chat_history' # chat_history =>
       \A i \in 1..Len(run'.log) :
         run'.log[i].hit => now' - inserted_at'[run'.log[i].name] <= TTL]_vars

\* C6: the cache holds at most Capacity entries.
C6_AtMostCapacity == Cardinality(DOMAIN geolocation_cache) <= Capacity

\* Every entry of the cache is a coordinate the provider answers with for
\* the name it is stored under.
EntriesFromProvider ==
  \A k \in DOMAIN geolocation_cache :
    geolocation_cache[k] \in Coordinates(k)

\* Thread t executes the store of line 76 for name k in this step.
Stores(t, k) ==
  At(t, 76) /\ calls[t].location_name = k /\ calls'[t] = Idle

\* A step keeps every entry, and changes or adds the entry of a name only
\* by the store of a resolution of that name.
OnlyOwnEntryWritten ==
  /\ \A k \in DOMAIN geolocation_cache :
       /\ k \in DOMAIN geolocation_cache'
       /\ geolocation_cache'[k] # geolocation_cache[k] =>
             \E t \in Threads : Stores(t, k)
  /\ \A k \in DOMAIN geolocation_cache' :
       k \notin DOMAIN geolocation_cache => \E t \in Threads : Stores(t, k)

\* C10: under every interleaving of concurrent resolutions on the shared
\* cache, two misses on the same name that both reach the provider
\* included, every entry maps its name to a coordinate the provider
\* answered for that name, and no entry is lost or overwritten by a
\* resolution of another name.
C10_CacheNeverCorrupted ==
  []EntriesFromProvider /\ [][OnlyOwnEntryWritten]_vars

\* C10 witness: two threads missed on the same name and both got an answer
\* from the provider; the first has stored its coordinate, the second is
\* about to store a different one, and the entry of another name is in the
\* cache.
C10_Witness ==
  \E t \in Threads :
    /\ At(t, 76)
    /\ calls[t].location_name \in DOMAIN geolocation_cache
    /\ geolocation_cache[calls[t].location_name] # <<calls[t].lat, calls[t].lon>>
    /\ \E k \in DOMAIN geolocation_cache : k # calls[t].location_name

\* The role the i-th message of an alternating history has.
RoleAt(i) == IF i % 2 = 1 THEN "user" ELSE "assistant"

\* chat_history reads user, assistant, user, assistant, ... and holds an
\* answer for every input.
Alternates ==
  /\ Len(chat_history) % 2 = 0
  /\ \A i \in 1..Len(chat_history) : chat_history[i].role = RoleAt(i)

\* A step that changes chat_history appends one user message followed by
\* one assistant message and keeps the earlier messages as they were.
AppendsPair ==
  chat_history' # chat_history =>
     chat_history' = chat_history \o <<[role |-> "user"], [role |-> "assistant"]>>

\* C11: after any sequence of user inputs chat_history strictly alternates
\* user, assistant, user, assistant: handling one input appends exactly one
\* user message followed by exactly one assistant message, whatever the
\* outcome of geocoding, and changes no earlier message.
C11_HistoryAlternates ==
  []Alternates /\ [][AppendsPair]_vars

====
